---- MODULE Spec2Model ----
(***************************************************************************)
(* SMOTEWB (smote_variants/oversampling/_smotewb.py): the boosted weights, *)
(* the noise masks, the non-noise pool, the neighbour categories, the      *)
(* per-sample quota with its correction, and the sample generation.        *)
(*                                                                         *)
(* Arrays are functions over 0..n-1, as in the source.  A feature row is   *)
(* named by its class and its row number in X_min / X_maj; the geometry is *)
(* left to the two collaborators whose answers are inputs: the weak        *)
(* classifier's predictions of a round (the set of misclassified samples)  *)
(* and the ranking the neighbour index returns for each minority sample.   *)
(* Real weights are fixed point numbers with Scale units to 1.0.           *)
(***************************************************************************)
EXTENDS Integers, Sequences, FiniteSets, TLC

VARIABLES
    pc,              \* position in sampling_algorithm
    n_min, n_maj,    \* class sizes of the dataset (minority rows first)
    min_label, maj_label,
    proportion,      \* self.proportion, in halves
    n_iters,         \* self.n_iters
    n_to_sample,
    w,               \* boosted_weights: the weight vector, fixed point
    w_nan,           \* boosted_weights: w holds NaN in every entry
    iter,            \* boosted_weights: rounds done
    noise_mask_min, noise_mask_maj,
    X_not_noise, y_not_noise,
    indices,         \* neighbour ranking of each minority sample, self column removed
    k_arr, fl_arr,
    C,               \* n_to_sample per minority sample
    selected_ind,    \* the draw of the correction step
    gi,              \* loop index of the sample generation
    synt_sample_list,
    outcome          \* how sampling_algorithm ended

vars == <<pc, n_min, n_maj, min_label, maj_label, proportion, n_iters, n_to_sample,
          w, w_nan, iter, noise_mask_min, noise_mask_maj, X_not_noise, y_not_noise,
          indices, k_arr, fl_arr, C, selected_ind, gi, synt_sample_list, outcome>>

----------------------------------------------------------------------------
(* Bounds *)

MaxMin == 2
MaxMaj == 3
MaxIters == 2
MaxPropHalves == 4
MaxMinQ == 3
MaxMajQ == 4
MaxPropHalvesQ == 3
Scale == 840

(* <<maj_label, min_label>> of the dataset *)
Encodings == {<<0, 1>>, <<1, 0>>, <<2, 1>>}

----------------------------------------------------------------------------
(* Helpers *)

Idx(n) == 0 .. (n - 1)

RECURSIVE SumOver(_, _)
SumOver(f, S) ==
    IF S = {} THEN 0
    ELSE LET x == CHOOSE y \in S : TRUE IN f[x] + SumOver(f, S \ {x})

SumAll(f) == SumOver(f, DOMAIN f)

CeilDiv(a, b) == (a + b - 1) \div b

RECURSIVE ISqrtIn(_, _, _)
ISqrtIn(x, lo, hi) ==
    IF lo >= hi THEN lo
    ELSE LET mid == (lo + hi + 1) \div 2
         IN IF mid * mid <= x THEN ISqrtIn(x, mid, hi) ELSE ISqrtIn(x, lo, mid - 1)

ISqrt(x) == ISqrtIn(x, 0, 30000)

RECURSIVE BitAnd(_, _)
BitAnd(a, b) ==
    IF a = 0 \/ b = 0 THEN 0
    ELSE (a % 2) * (b % 2) + 2 * BitAnd(a \div 2, b \div 2)

Invert8(x) == 255 - x

sample_good == 1
sample_lonely == 0
sample_bad == -1

----------------------------------------------------------------------------
(* det_n_to_sample of the base class: int((n_maj - n_min) * proportion), not below 0 *)
det_n_to_sample(prop, nmaj, nmin) ==
    IF nmaj > nmin THEN ((nmaj - nmin) * prop) \div 2 ELSE 0

(* boosted_weights, one round of the loop for the misclassified set M *)
w_error_of(wv, M) == SumOver(wv, M)

exp_alpha(e) == ISqrt(((Scale - e) * Scale * Scale) \div e)

reweighted(wv, M) ==
    LET f == exp_alpha(w_error_of(wv, M))
    IN [i \in DOMAIN wv |-> IF i \in M THEN (wv[i] * f) \div Scale ELSE wv[i]]

(* noise_threshold: 1 where w > th = num / den, else 0 (np.uint8) *)
noise_threshold(wv, num, den) ==
    [i \in DOMAIN wv |-> IF wv[i] * den > num * Scale THEN 1 ELSE 0]

(* a comparison with NaN is false: the mask of a NaN vector is all 0 *)
nan_mask(n) == [i \in Idx(n) |-> 0]

w_min_of(wv, nmin) == [i \in Idx(nmin) |-> wv[i]]
w_maj_of(wv, nmin, nmaj) == [i \in Idx(nmaj) |-> wv[nmin + i]]

k_max == CeilDiv(n_maj, n_min)

(* X_min[noise_mask_min]: the mask is np.uint8, so it indexes rows by number *)
take_rows(cls, mask) == [r \in DOMAIN mask |-> [cls |-> cls, row |-> mask[r]]]

index_in_bounds(mask, n) == \A r \in DOMAIN mask : mask[r] < n

concatenate(a, la, b, lb) ==
    [p \in Idx(la + lb) |-> IF p < la THEN a[p] ELSE b[p - la]]

repeat(v, n) == [p \in Idx(n) |-> v]

n_neighbors_of(pool_len) == IF pool_len < k_max + 1 THEN pool_len ELSE k_max + 1

(* what kneighbors can return for one query: n_nb distinct pool positions *)
Rankings(pool_len, n_nb) ==
    {f \in [Idx(n_nb) -> Idx(pool_len)] :
        \A a, b \in Idx(n_nb) : a # b => f[a] # f[b]}

(* indices[:, 1:] *)
drop_first(row) == [c \in Idx(Cardinality(DOMAIN row) - 1) |-> row[c + 1]]

(* first_majority_index on one row of labels *)
first_majority_index(yrow, invalid_val) ==
    LET mask == [c \in DOMAIN yrow |-> yrow[c] = 0]
    IN IF \E c \in DOMAIN yrow : mask[c]
       THEN CHOOSE c \in DOMAIN yrow : mask[c] /\ \A d \in DOMAIN yrow : mask[d] => c <= d
       ELSE invalid_val

row_labels(ylab, row) == [c \in DOMAIN row |-> ylab[row[c]]]

(* fl_arr[mask] = v *)
assign_where(f, mask, v) == [i \in DOMAIN f |-> IF mask[i] THEN v ELSE f[i]]

(* the three masked assignments to fl_arr; & binds tighter than == *)
categories(karr, nmask) ==
    LET f0 == [i \in DOMAIN karr |-> "empty"]
        f1 == assign_where(f0, [i \in DOMAIN karr |-> karr[i] > 0], sample_good)
        f2 == assign_where(f1, [i \in DOMAIN karr |->
                                  karr[i] = BitAnd(0, nmask[i])], sample_bad)
    IN assign_where(f2, [i \in DOMAIN karr |->
                           karr[i] = BitAnd(0, Invert8(nmask[i]))], sample_lonely)

count_of(fl, v) == Cardinality({i \in DOMAIN fl : fl[i] = v})

quota(fl, per) ==
    [i \in DOMAIN fl |-> IF fl[i] = sample_good \/ fl[i] = sample_lonely THEN per ELSE 0]

good_and_lonely_ind(fl) == {i \in DOMAIN fl : fl[i] = sample_good \/ fl[i] = sample_bad}

(* random_state.choice(a, size, replace): the draws it can return *)
Choices(a, size, replace) ==
    {s \in [1 .. size -> a] : replace \/ \A x, y \in 1 .. size : x # y => s[x] # s[y]}

(* np.subtract.at(C, selected_ind, 1): one decrement per draw *)
decrement_at_each(Cv, sel) ==
    [i \in DOMAIN Cv |-> Cv[i] - Cardinality({j \in DOMAIN sel : sel[j] = i})]

(* C[selected_ind] -= 1: one decrement per distinct index *)
decrement_at(Cv, sel) ==
    [i \in DOMAIN Cv |-> IF \E j \in DOMAIN sel : sel[j] = i THEN Cv[i] - 1 ELSE Cv[i]]

(* indices[i, 1: k_arr[i]], as the sequence of the pool positions *)
nn_of(row, k) == [j \in 1 .. (IF k > 1 THEN k - 1 ELSE 0) |-> row[j]]

Range(s) == {s[j] : j \in DOMAIN s}

----------------------------------------------------------------------------
(* The states after construction and the call of sample(X, y) *)

Blank == <<>>

Init ==
    /\ pc = "start"
    /\ \E e \in Encodings : maj_label = e[1] /\ min_label = e[2]
    /\ n_min \in 1 .. MaxMin
    /\ n_maj \in n_min .. MaxMaj
    /\ proportion \in 0 .. MaxPropHalves
    /\ n_iters \in 1 .. MaxIters
    /\ n_to_sample = 0
    /\ w = Blank /\ w_nan = FALSE /\ iter = 0
    /\ noise_mask_min = Blank /\ noise_mask_maj = Blank
    /\ X_not_noise = Blank /\ y_not_noise = Blank
    /\ indices = Blank /\ k_arr = Blank /\ fl_arr = Blank
    /\ C = Blank /\ selected_ind = Blank /\ gi = 0
    /\ synt_sample_list = <<>>
    /\ outcome = "running"

(* lines 183-186 and the start of boosted_weights, lines 106-108 *)
Start ==
    /\ pc = "start"
    /\ n_to_sample' = det_n_to_sample(proportion, n_maj, n_min)
    /\ IF n_to_sample' = 0
       THEN /\ pc' = "done"
            /\ outcome' = "copies"
            /\ w' = w
       ELSE /\ pc' = "boost"
            /\ outcome' = outcome
            /\ w' = [i \in Idx(n_min + n_maj) |-> Scale \div (n_min + n_maj)]
    /\ UNCHANGED <<n_min, n_maj, min_label, maj_label, proportion, n_iters,
                   w_nan, iter, noise_mask_min, noise_mask_maj, X_not_noise,
                   y_not_noise, indices, k_arr, fl_arr, C, selected_ind, gi,
                   synt_sample_list>>

(* one round of the loop of boosted_weights, lines 115-130 *)
BoostRound ==
    /\ pc = "boost"
    /\ iter < n_iters
    /\ \E M \in SUBSET Idx(n_min + n_maj), fit_ok \in BOOLEAN :
        /\ ~w_nan => fit_ok
        /\ LET last == iter + 1 = n_iters
               e    == w_error_of(w, M)
               w1   == reweighted(w, M)
               s    == SumAll(w1)
           IN IF ~fit_ok
              THEN pc' = "done" /\ outcome' = "ValueError"
                   /\ UNCHANGED <<w, w_nan, iter>>
              ELSE IF (w_nan /\ M = {}) \/ (~w_nan /\ e = 0)
              THEN /\ w' = [i \in DOMAIN w |-> 0]
                   /\ w_nan' = FALSE
                   /\ iter' = iter
                   /\ pc' = "noise"
                   /\ outcome' = outcome
              ELSE /\ iter' = iter + 1
                   /\ pc' = IF last THEN "noise" ELSE "boost"
                   /\ outcome' = outcome
                   /\ IF w_nan \/ s = 0
                      THEN w_nan' = TRUE /\ w' = [i \in DOMAIN w |-> 0]
                      ELSE w_nan' = FALSE
                           /\ w' = [i \in DOMAIN w |-> (w1[i] * Scale) \div s]
    /\ UNCHANGED <<n_min, n_maj, min_label, maj_label, proportion, n_iters,
                   n_to_sample, noise_mask_min, noise_mask_maj, X_not_noise,
                   y_not_noise, indices, k_arr, fl_arr, C, selected_ind, gi,
                   synt_sample_list>>

(* noise_detection after boosted_weights has returned, lines 152-164 *)
NoiseDetection ==
    /\ pc = "noise"
    /\ LET n == n_min + n_maj
       IN IF w_nan
          THEN /\ noise_mask_min' = nan_mask(n_min)
               /\ noise_mask_maj' = nan_mask(n_maj)
          ELSE /\ noise_mask_min' = noise_threshold(w_min_of(w, n_min), 2 * n_maj, n * n)
               /\ noise_mask_maj' =
                      noise_threshold(w_maj_of(w, n_min, n_maj), 2 * n_min, n * n)
    /\ w' = Blank /\ w_nan' = FALSE /\ iter' = 0
    /\ pc' = "pool"
    /\ UNCHANGED <<n_min, n_maj, min_label, maj_label, proportion, n_iters,
                   n_to_sample, X_not_noise, y_not_noise, indices, k_arr, fl_arr,
                   C, selected_ind, gi, synt_sample_list, outcome>>

(* lines 212-214 *)
BuildPool ==
    /\ pc = "pool"
    /\ IF index_in_bounds(noise_mask_min, n_min) /\ index_in_bounds(noise_mask_maj, n_maj)
       THEN /\ X_not_noise' = concatenate(take_rows("min", noise_mask_min), n_min,
                                          take_rows("maj", noise_mask_maj), n_maj)
            /\ y_not_noise' = concatenate(repeat(min_label, n_min), n_min,
                                          repeat(maj_label, n_maj), n_maj)
            /\ pc' = "knn"
            /\ outcome' = outcome
       ELSE /\ pc' = "done"
            /\ outcome' = "IndexError"
            /\ UNCHANGED <<X_not_noise, y_not_noise>>
    /\ UNCHANGED <<n_min, n_maj, min_label, maj_label, proportion, n_iters,
                   n_to_sample, w, w_nan, iter, noise_mask_min, noise_mask_maj,
                   indices, k_arr, fl_arr, C, selected_ind, gi, synt_sample_list>>

(* lines 221-229 *)
KNeighbors ==
    /\ pc = "knn"
    /\ LET pool_len == n_min + n_maj
           n_nb == n_neighbors_of(pool_len)
       IN \E full \in [Idx(n_min) -> Rankings(pool_len, n_nb)] :
            indices' = [i \in Idx(n_min) |-> drop_first(full[i])]
    /\ pc' = "kidx"
    /\ UNCHANGED <<n_min, n_maj, min_label, maj_label, proportion, n_iters,
                   n_to_sample, w, w_nan, iter, noise_mask_min, noise_mask_maj,
                   X_not_noise, y_not_noise, k_arr, fl_arr, C, selected_ind, gi,
                   synt_sample_list, outcome>>

(* line 232 *)
FirstMajorityIndex ==
    /\ pc = "kidx"
    /\ k_arr' = [i \in Idx(n_min) |->
                   first_majority_index(row_labels(y_not_noise, indices[i]), k_max)]
    /\ pc' = "cat"
    /\ UNCHANGED <<n_min, n_maj, min_label, maj_label, proportion, n_iters,
                   n_to_sample, w, w_nan, iter, noise_mask_min, noise_mask_maj,
                   X_not_noise, y_not_noise, indices, fl_arr, C, selected_ind, gi,
                   synt_sample_list, outcome>>

(* lines 235-238 *)
Categorize ==
    /\ pc = "cat"
    /\ fl_arr' = categories(k_arr, noise_mask_min)
    /\ pc' = "alloc"
    /\ UNCHANGED <<n_min, n_maj, min_label, maj_label, proportion, n_iters,
                   n_to_sample, w, w_nan, iter, noise_mask_min, noise_mask_maj,
                   X_not_noise, y_not_noise, indices, k_arr, C, selected_ind, gi,
                   synt_sample_list, outcome>>

(* lines 246-257 *)
Allocate ==
    /\ pc = "alloc"
    /\ LET n_good_min == count_of(fl_arr, sample_good)
           n_lonely_min == count_of(fl_arr, sample_lonely)
       IN IF n_good_min + n_lonely_min = 0
          THEN pc' = "done" /\ outcome' = "fallback" /\ C' = C
          ELSE /\ C' = quota(fl_arr, CeilDiv(n_to_sample, n_good_min + n_lonely_min))
               /\ pc' = "correct"
               /\ outcome' = outcome
    /\ UNCHANGED <<n_min, n_maj, min_label, maj_label, proportion, n_iters,
                   n_to_sample, w, w_nan, iter, noise_mask_min, noise_mask_maj,
                   X_not_noise, y_not_noise, indices, k_arr, fl_arr, selected_ind,
                   gi, synt_sample_list>>

(* lines 269-274 *)
Correct ==
    /\ pc = "correct"
    /\ LET diff == SumAll(C) - n_to_sample
           pool == good_and_lonely_ind(fl_arr)
       IN IF diff > 0
          THEN IF pool = {}
               THEN pc' = "done" /\ outcome' = "ValueError"
                    /\ UNCHANGED <<C, selected_ind>>
               ELSE /\ selected_ind' \in Choices(pool, diff, Cardinality(pool) < diff)
                    /\ C' = decrement_at(C, selected_ind')
                    /\ pc' = "gen"
                    /\ outcome' = outcome
          ELSE pc' = "gen" /\ UNCHANGED <<C, selected_ind, outcome>>
    /\ gi' = 0
    /\ UNCHANGED <<n_min, n_maj, min_label, maj_label, proportion, n_iters,
                   n_to_sample, w, w_nan, iter, noise_mask_min, noise_mask_maj,
                   X_not_noise, y_not_noise, indices, k_arr, fl_arr,
                   synt_sample_list>>

(* one pass of the loop of lines 278-287; a sample is <<source row, pool position>>,
   the pool position -1 for a copy of the source *)
Generate ==
    /\ pc = "gen"
    /\ gi < n_min
    /\ LET nn == nn_of(indices[gi], k_arr[gi])
       IN IF fl_arr[gi] = sample_lonely
          THEN synt_sample_list' =
                   synt_sample_list \o [j \in 1 .. C[gi] |-> <<gi, -1>>]
          ELSE IF fl_arr[gi] = sample_good /\ C[gi] > 0 /\ Len(nn) > 0
          THEN \E k_ids \in [1 .. C[gi] -> Range(nn)] :
                   synt_sample_list' =
                       synt_sample_list \o [j \in 1 .. C[gi] |-> <<gi, k_ids[j]>>]
          ELSE synt_sample_list' = synt_sample_list
    /\ gi' = gi + 1
    /\ UNCHANGED <<pc, n_min, n_maj, min_label, maj_label, proportion, n_iters,
                   n_to_sample, w, w_nan, iter, noise_mask_min, noise_mask_maj,
                   X_not_noise, y_not_noise, indices, k_arr, fl_arr, C,
                   selected_ind, outcome>>

(* lines 290-301 *)
Return ==
    /\ pc = "gen"
    /\ gi = n_min
    /\ pc' = "done"
    /\ outcome' = IF Len(synt_sample_list) = 0 THEN "copies" ELSE "extended"
    /\ UNCHANGED <<n_min, n_maj, min_label, maj_label, proportion, n_iters,
                   n_to_sample, w, w_nan, iter, noise_mask_min, noise_mask_maj,
                   X_not_noise, y_not_noise, indices, k_arr, fl_arr, C,
                   selected_ind, gi, synt_sample_list>>

Next ==
    \/ Start
    \/ BoostRound
    \/ NoiseDetection
    \/ BuildPool
    \/ KNeighbors
    \/ FirstMajorityIndex
    \/ Categorize
    \/ Allocate
    \/ Correct
    \/ Generate
    \/ Return

Spec == Init /\ [][Next]_vars

----------------------------------------------------------------------------
(* The quota allocation on its own: the states in which kneighbors has     *)
(* returned (line 229), for larger minority classes.  A ranking row is m   *)
(* minority pool positions followed by majority pool positions.            *)

ranked_row(m) == [c \in Idx(k_max) |-> IF c < m THEN c ELSE n_min + (c - m)]

InitQ ==
    /\ pc = "kidx"
    /\ \E e \in Encodings : maj_label = e[1] /\ min_label = e[2]
    /\ n_min \in 1 .. MaxMinQ
    /\ n_maj \in (n_min + 1) .. MaxMajQ
    /\ proportion \in 1 .. MaxPropHalvesQ
    /\ n_iters = 1
    /\ n_to_sample = det_n_to_sample(proportion, n_maj, n_min)
    /\ n_to_sample > 0
    /\ w = Blank /\ w_nan = FALSE /\ iter = 0
    /\ noise_mask_min \in [Idx(n_min) -> {0, 1}]
    /\ index_in_bounds(noise_mask_min, n_min)
    /\ noise_mask_maj = [r \in Idx(n_maj) |-> 0]
    /\ X_not_noise = concatenate(take_rows("min", noise_mask_min), n_min,
                                 take_rows("maj", noise_mask_maj), n_maj)
    /\ y_not_noise = concatenate(repeat(min_label, n_min), n_min,
                                 repeat(maj_label, n_maj), n_maj)
    /\ indices \in [Idx(n_min) ->
                      {ranked_row(m) : m \in 0 .. (IF n_min < k_max THEN n_min ELSE k_max)}]
    /\ k_arr = Blank /\ fl_arr = Blank
    /\ C = Blank /\ selected_ind = Blank /\ gi = 0
    /\ synt_sample_list = <<>>
    /\ outcome = "running"

NextQ ==
    \/ FirstMajorityIndex
    \/ Categorize
    \/ Allocate
    \/ Correct
    \/ Generate
    \/ Return

SpecQ == InitQ /\ [][NextQ]_vars

----------------------------------------------------------------------------
(* Stages of sampling_algorithm *)

Categorized == DOMAIN fl_arr # {}

AfterCorrection ==
    pc = "gen" \/ (pc = "done" /\ outcome \in {"copies", "extended"} /\ DOMAIN C # {})

MainPathDone == pc = "done" /\ outcome \in {"copies", "extended"} /\ DOMAIN C # {}

ReturnsDataset == outcome \in {"copies", "extended", "fallback"}

----------------------------------------------------------------------------
(* What the specification says of each stage *)

(* the minority then the majority rows whose noise flag is false, each once *)
RECURSIVE non_noise_rows(_, _, _, _)
non_noise_rows(cls, mask, r, n) ==
    IF r >= n THEN <<>>
    ELSE (IF mask[r] = 0 THEN <<[cls |-> cls, row |-> r]>> ELSE <<>>)
         \o non_noise_rows(cls, mask, r + 1, n)

NonNoiseSet ==
    non_noise_rows("min", noise_mask_min, 0, n_min)
    \o non_noise_rows("maj", noise_mask_maj, 0, n_maj)

AsSeq(f) == [j \in 1 .. Cardinality(DOMAIN f) |-> f[j - 1]]

LabelOf(cls) == IF cls = "min" THEN min_label ELSE maj_label

(* the number of leading neighbours of row i before the first one labelled lab *)
LeadingBefore(i, lab) ==
    LET row == indices[i]
        hits == {c \in DOMAIN row : y_not_noise[row[c]] = lab}
    IN IF hits = {} THEN k_max
       ELSE CHOOSE c \in hits : \A d \in hits : c <= d

CategoryOf(k, noise) ==
    IF k > 0 THEN sample_good
    ELSE IF noise = 0 THEN sample_lonely ELSE sample_bad

----------------------------------------------------------------------------
(* C1: after the correction step the quota vector C sums exactly to
   n_to_sample, whichever indices the draw returned, repeated ones included. *)
C1_QuotaSumsToTarget ==
    AfterCorrection => SumAll(C) = n_to_sample

(* C2: after the correction step every entry of the quota vector C is >= 0,
   for every draw over the correction pool. *)
C2_QuotaNonNegative ==
    AfterCorrection => \A i \in DOMAIN C : C[i] >= 0

(* C2 witness: the correction drew with replacement, repeated an index, and
   left a good sample with quota 0. *)
C2_Witness ==
    /\ pc = "gen"
    /\ DOMAIN selected_ind # {}
    /\ \E a, b \in DOMAIN selected_ind : a # b /\ selected_ind[a] = selected_ind[b]
    /\ \E i \in DOMAIN C : fl_arr[i] = sample_good /\ C[i] = 0

(* C3: the category written to fl_arr[i] is good if k_i > 0, lonely if
   k_i = 0 and the sample is not flagged noise, bad if k_i = 0 and it is. *)
C3_CategoryRule ==
    Categorized =>
        \A i \in DOMAIN fl_arr : fl_arr[i] = CategoryOf(k_arr[i], noise_mask_min[i])

(* C4: when every minority sample has k_i = 0 and is flagged noise, all are
   categorized bad and sampling_algorithm takes the fallback branch, skipping
   the quota allocation and the sample generation. *)
C4_AllBadFallsBack ==
    (Categorized /\ \A i \in DOMAIN fl_arr : k_arr[i] = 0 /\ noise_mask_min[i] = 1) =>
        /\ \A i \in DOMAIN fl_arr : fl_arr[i] = sample_bad
        /\ pc # "alloc" => (pc = "done" /\ outcome = "fallback" /\ DOMAIN C = {}
                            /\ synt_sample_list = <<>>)

(* C5: whenever the main path runs to its end, the number of synthetic rows
   appended equals n_to_sample; with proportion 1.0 the minority count after
   sampling equals the majority count. *)
C5_AppendsTarget ==
    MainPathDone =>
        /\ Len(synt_sample_list) = n_to_sample
        /\ proportion = 2 => n_min + Len(synt_sample_list) = n_maj

(* C6: sampling_algorithm ends by returning a dataset and never by raising an
   error, also when no minority sample is good and the allocation overshoots. *)
C6_NeverRaises ==
    pc = "done" => ReturnsDataset

(* C7: every synthetic sample of a good source i interpolates with a pool
   sample that is minority-labelled and ranked strictly before the first
   majority-labelled neighbour of i. *)
C7_NeighbourInMinorityPrefix ==
    \A s \in Range(synt_sample_list) :
        fl_arr[s[1]] = sample_good =>
            /\ s[2] >= 0
            /\ y_not_noise[s[2]] = min_label
            /\ \E c \in DOMAIN indices[s[1]] :
                 indices[s[1]][c] = s[2] /\ c < LeadingBefore(s[1], maj_label)

(* C8: boosted_weights returns the all-zero vector after a round with
   w_error = 0, or non-negative weights that sum to 1; the renormalisation
   w / sum(w) is defined in every round. *)
C8_WeightsAreDistribution ==
    /\ pc \in {"boost", "noise"} => ~w_nan
    /\ pc = "noise" =>
         \/ \A i \in DOMAIN w : w[i] = 0
         \/ /\ \A i \in DOMAIN w : w[i] >= 0
            /\ SumAll(w) <= Scale
            /\ SumAll(w) >= Scale - (n_min + n_maj)

(* C9: X_not_noise is exactly the minority samples not flagged noise followed
   by the majority samples not flagged noise, and y_not_noise has its length
   and gives each pool member its own class label. *)
C9_PoolIsNonNoiseSet ==
    pc = "knn" =>
        /\ AsSeq(X_not_noise) = NonNoiseSet
        /\ Cardinality(DOMAIN y_not_noise) = Cardinality(DOMAIN X_not_noise)
        /\ \A p \in DOMAIN X_not_noise : y_not_noise[p] = LabelOf(X_not_noise[p].cls)

(* C10: k_i is the position of the first neighbour labelled maj_label in the
   ranked neighbour labels, and k_max when there is none, whatever the values
   of min_label and maj_label. *)
C10_FirstMajorityPosition ==
    pc = "cat" => \A i \in DOMAIN k_arr : k_arr[i] = LeadingBefore(i, maj_label)

====
